---- MODULE Spec2Model ----
(***************************************************************************)
(* Streaming chat session manager of yuque-rag.                            *)
(*                                                                         *)
(*   SpecStream  the two Stream Consumers: the web client's                *)
(*               sendChatMessageStream (byte-stream mode) and the mobile   *)
(*               client's ChatService.chatStream (buffered-replay mode).   *)
(*   Spec        the two chat clients: the web hooks useChat / useHistory  *)
(*               and the mobile ChatScreen, driven through the three       *)
(*               callbacks of their Stream Consumer.                       *)
(***************************************************************************)
EXTENDS Integers, Sequences, FiniteSets, TLC

VARIABLES
    mode,         \* what runs: "bytes" | "replay" (a consumer), "web" | "store" | "mobile" (a client)
    pc,           \* position of the consumer's async function
    wire,         \* bytes mode: the whole response body the server sends
    body,         \* bytes mode: the part of the body not yet returned by read()
    parseErrors,  \* bytes mode: lines reported by console.error in the catch
    answer,       \* replay mode: response.data.answer (NoAnswer when absent)
    idx,          \* replay mode: the loop variable i
    cbLog,        \* the callbacks invoked so far, in call order
    now,          \* Date.now()
    turns,        \* the sends accepted so far, each with what its closures hold
    sessions,          \* web: useHistory's sessions state
    currentSessionId,  \* web: useHistory's currentSessionId state
    isLoading,         \* web: useChat's isLoading state
    rendered,          \* web: the state the handlers of the last render closed over
    localStorage,      \* web: the session list stored under STORAGE_KEY
    messages,          \* mobile: ChatScreen's messages state
    mIsLoading,        \* mobile: ChatScreen's isLoading state
    isLoadingRef,      \* mobile: isLoadingRef.current
    streamingId,       \* mobile: currentStreamingMessageId.current
    sessionRef,        \* mobile: currentSessionId.current
    chatHistory,       \* mobile: the session list kept by Storage
    tasks,             \* mobile: saveHistory / loadHistory calls waiting at their await
    activeTokens,      \* server: the active token of every user
    issued,            \* server: the tokens issued so far, in order of issue
    serverNow,         \* server: the server's clock
    lastResponse       \* server: the answer to the last request that carried a token

streamVars == <<pc, wire, body, parseErrors, answer, idx, cbLog>>
webVars == <<sessions, currentSessionId, isLoading, rendered, localStorage>>
mobileVars == <<messages, mIsLoading, isLoadingRef, streamingId, sessionRef,
                chatHistory, tasks>>
clientVars == <<now, turns, sessions, currentSessionId, isLoading, rendered,
                localStorage, messages, mIsLoading, isLoadingRef, streamingId,
                sessionRef, chatHistory, tasks>>

authVars == <<activeTokens, issued, serverNow, lastResponse>>

vars == <<mode, pc, wire, body, parseErrors, answer, idx, cbLog, now, turns,
          sessions, currentSessionId, isLoading, rendered, localStorage,
          messages, mIsLoading, isLoadingRef, streamingId, sessionRef,
          chatHistory, tasks, activeTokens, issued, serverNow, lastResponse>>

(***************************************************************************)
(* Bounds                                                                  *)
(***************************************************************************)
MaxFrames == 3
MaxAnswer == 3
MaxSends == 2
MaxChunks == 2
MaxClock == 2
MaxSessions == 2
MaxTasks == 2
\* The bounds of the store scenario (mode "store"): the web client with a
\* longer session history and one short turn.
MaxStoreSessions == 3
MaxStoreClock == 3
MaxStoreSends == 1
MaxStoreChunks == 1

\* The server scenario: logins, requests and clock ticks.
MaxLogins == 3
MaxRequests == 2
MaxServerClock == 4

(***************************************************************************)
(* String helpers (JavaScript String methods)                              *)
(***************************************************************************)
StartsWith(s, p) == Len(s) >= Len(p) /\ SubSeq(s, 1, Len(p)) = p

\* String.prototype.slice(n) for 0 <= n
Slice(s, n) == SubSeq(s, n + 1, Len(s))

\* The text of a chunk: its pieces joined.
RECURSIVE Join(_)
Join(pieces) == IF pieces = <<>> THEN "" ELSE Head(pieces) \o Join(Tail(pieces))

\* chunk.split('\n') of the chunk made of `pieces`; a line break is a piece of
\* its own. `cur` is the text of the line being collected.
RECURSIVE SplitFrom(_, _)
SplitFrom(pieces, cur) ==
    IF pieces = <<>> THEN <<cur>>
    ELSE IF Head(pieces) = "\n"
         THEN <<cur>> \o SplitFrom(Tail(pieces), "")
         ELSE SplitFrom(Tail(pieces), cur \o Head(pieces))

Split(pieces) == SplitFrom(pieces, "")

(***************************************************************************)
(* The wire format of POST /chat/stream                                    *)
(***************************************************************************)
ContentA == "{\"content\": \"a\"}"
DoneFrame == "{\"done\": true}"
\* An error frame; it carries content as well, which the consumer has to ignore.
ErrorFrame == "{\"content\": \"c\", \"error\": \"e\"}"
ContentDone == "{\"content\": \"b\", \"done\": true}"
NotJson == "not-json"

Payloads == {ContentA, DoneFrame, ErrorFrame, ContentDone, NotJson}

\* JSON.parse on the payloads of the universe; every other text (a payload cut
\* in two by a read among them) is no JSON value and makes JSON.parse throw.
JSONParse(text) ==
    CASE text = ContentA -> [ok |-> TRUE, content |-> "a", done |-> FALSE, error |-> ""]
      [] text = DoneFrame -> [ok |-> TRUE, content |-> "", done |-> TRUE, error |-> ""]
      [] text = ErrorFrame -> [ok |-> TRUE, content |-> "c", done |-> FALSE, error |-> "e"]
      [] text = ContentDone -> [ok |-> TRUE, content |-> "b", done |-> TRUE, error |-> ""]
      [] OTHER -> [ok |-> FALSE, content |-> "", done |-> FALSE, error |-> ""]

\* One frame as the server writes it: the marker, the payload, a blank line.
\* The body is kept as a sequence of pieces of text, and a read() returns
\* whole pieces: the places where the transport may cut the body are the
\* middle of the marker, the end of the marker, the middle of the payload, the
\* end of the payload and between the two line breaks.
FrameLine(p) ==
    <<"da", "ta: ", SubSeq(p, 1, Len(p) \div 2), SubSeq(p, Len(p) \div 2 + 1, Len(p)),
      "\n", "\n">>

RECURSIVE WiresOfLen(_)
WiresOfLen(n) ==
    IF n = 0 THEN {<<>>}
    ELSE {FrameLine(p) \o w : p \in Payloads, w \in WiresOfLen(n - 1)}

Wires == UNION {WiresOfLen(n) : n \in 0..MaxFrames}

(***************************************************************************)
(* Callbacks                                                               *)
(***************************************************************************)
OnChunk(text) == [cb |-> "onChunk", arg |-> text]
OnComplete == [cb |-> "onComplete", arg |-> ""]
OnError(msg) == [cb |-> "onError", arg |-> msg]

IsTerminal(c) == c.cb \in {"onComplete", "onError"}

(***************************************************************************)
(* sendChatMessageStream: the loop body over the lines of one read         *)
(***************************************************************************)
\* st = [log, errs, returned]: the callbacks made, the lines logged by the
\* catch, and whether the function has returned.
ProcessLineNoReturn(line, st) ==
    IF ~StartsWith(line, "data: ") THEN st
    ELSE LET data == JSONParse(Slice(line, 6)) IN
         IF ~data.ok THEN [st EXCEPT !.errs = @ + 1]
         ELSE IF data.error # ""
              THEN [st EXCEPT !.log = Append(@, OnError(data.error))]
              ELSE LET st1 == IF data.content # ""
                              THEN [st EXCEPT !.log = Append(@, OnChunk(data.content))]
                              ELSE st
                   IN  IF data.done
                       THEN [st1 EXCEPT !.log = Append(@, OnComplete)]
                       ELSE st1

ProcessLineCatchEnds(line, st) ==
    IF ~StartsWith(line, "data: ") THEN st
    ELSE LET data == JSONParse(Slice(line, 6)) IN
         IF ~data.ok
         THEN [st EXCEPT !.errs = @ + 1,
                         !.log = Append(@, OnError("parse")), !.returned = TRUE]
         ELSE IF data.error # ""
              THEN [st EXCEPT !.log = Append(@, OnError(data.error)), !.returned = TRUE]
              ELSE LET st1 == IF data.content # ""
                              THEN [st EXCEPT !.log = Append(@, OnChunk(data.content))]
                              ELSE st
                   IN  IF data.done
                       THEN [st1 EXCEPT !.log = Append(@, OnComplete), !.returned = TRUE]
                       ELSE st1

\* A loop body that looks at data.content before data.error.
ProcessLineContentFirst(line, st) ==
    IF ~StartsWith(line, "data: ") THEN st
    ELSE LET data == JSONParse(Slice(line, 6)) IN
         IF ~data.ok THEN [st EXCEPT !.errs = @ + 1]
         ELSE LET st1 == IF data.content # ""
                         THEN [st EXCEPT !.log = Append(@, OnChunk(data.content))]
                         ELSE st
              IN  IF data.error # ""
                  THEN [st1 EXCEPT !.log = Append(@, OnError(data.error)), !.returned = TRUE]
                  ELSE IF data.done
                       THEN [st1 EXCEPT !.log = Append(@, OnComplete), !.returned = TRUE]
                       ELSE st1

ProcessLine(line, st) ==
    IF ~StartsWith(line, "data: ") THEN st
    ELSE LET data == JSONParse(Slice(line, 6)) IN
         IF ~data.ok THEN [st EXCEPT !.errs = @ + 1]
         ELSE IF data.error # ""
              THEN [st EXCEPT !.log = Append(@, OnError(data.error)), !.returned = TRUE]
              ELSE LET st1 == IF data.content # ""
                              THEN [st EXCEPT !.log = Append(@, OnChunk(data.content))]
                              ELSE st
                   IN  IF data.done
                       THEN [st1 EXCEPT !.log = Append(@, OnComplete), !.returned = TRUE]
                       ELSE st1

RECURSIVE ProcessLines(_, _)
ProcessLines(lines, st) ==
    IF lines = <<>> \/ st.returned THEN st
    ELSE ProcessLines(Tail(lines), ProcessLine(Head(lines), st))

(***************************************************************************)
(* sendChatMessageStream: the steps between its awaits                     *)
(***************************************************************************)
\* await fetch(...) rejects: the outer catch calls onError.
FetchReject ==
    /\ mode = "bytes" /\ pc = "fetch"
    /\ cbLog' = Append(cbLog, OnError("network"))
    /\ pc' = "done"
    /\ UNCHANGED <<mode, authVars, wire, body, parseErrors, answer, idx, clientVars>>

\* !response.ok, or no body reader: the throw is caught by the outer catch.
FetchNotOk ==
    /\ mode = "bytes" /\ pc = "fetch"
    /\ cbLog' = Append(cbLog, OnError("HTTP error"))
    /\ pc' = "done"
    /\ UNCHANGED <<mode, authVars, wire, body, parseErrors, answer, idx, clientVars>>

FetchOk ==
    /\ mode = "bytes" /\ pc = "fetch"
    /\ pc' = "read"
    /\ UNCHANGED <<mode, authVars, wire, body, parseErrors, answer, idx, cbLog, clientVars>>

\* reader.read() resolves with the next k pieces of the body; the lines
\* of that chunk are handled before the next await.
ReadChunk ==
    /\ mode = "bytes" /\ pc = "read" /\ body # <<>>
    /\ \E k \in 1..Len(body) :
         LET chunk == SubSeq(body, 1, k)
             st == ProcessLines(Split(chunk),
                                [log |-> cbLog, errs |-> parseErrors, returned |-> FALSE])
         IN  /\ body' = SubSeq(body, k + 1, Len(body))
             /\ cbLog' = st.log
             /\ parseErrors' = st.errs
             /\ pc' = IF st.returned THEN "done" ELSE "read"
    /\ UNCHANGED <<mode, authVars, wire, answer, idx, clientVars>>

\* reader.read() resolves with done: true.
ReadDone ==
    /\ mode = "bytes" /\ pc = "read" /\ body = <<>>
    /\ cbLog' = Append(cbLog, OnComplete)
    /\ pc' = "done"
    /\ UNCHANGED <<mode, authVars, wire, body, parseErrors, answer, idx, clientVars>>

\* reader.read() rejects (the connection drops): the outer catch calls onError.
ReadFail ==
    /\ mode = "bytes" /\ pc = "read"
    /\ cbLog' = Append(cbLog, OnError("read failed"))
    /\ pc' = "done"
    /\ UNCHANGED <<mode, authVars, wire, body, parseErrors, answer, idx, clientVars>>

(***************************************************************************)
(* ChatService.chatStream                                                  *)
(***************************************************************************)
\* A string is the sequence of its UTF-16 code units: answer.length counts
\* them and answer[i] is one of them. A CJK character is one unit, a character
\* outside the basic plane is a pair of surrogates.
CJK == "\\u4E2D"
HighSurrogate == "\\uD83D"
LowSurrogate == "\\uDE00"
Units == {"a", CJK, HighSurrogate, LowSurrogate}

RECURSIVE StringsOfLen(_)
StringsOfLen(n) ==
    IF n = 0 THEN {<<>>}
    ELSE {<<u>> \o w : u \in Units, w \in StringsOfLen(n - 1)}

\* response.data.answer: absent, or a string of up to MaxAnswer units.
NoAnswer == <<"<undefined>">>
Answers == {NoAnswer} \cup UNION {StringsOfLen(n) : n \in 0..MaxAnswer}

\* The mutant of CharAt: one unit too far.
CharAtNext(str, i) == str[IF i + 2 <= Len(str) THEN i + 2 ELSE Len(str)]

\* answer[i], i counted from 0
CharAt(str, i) == str[i + 1]

\* await apiClient.post rejects: the catch calls onError.
PostReject ==
    /\ mode = "replay" /\ pc = "post"
    /\ cbLog' = Append(cbLog, OnError("network"))
    /\ pc' = "done"
    /\ UNCHANGED <<mode, authVars, wire, body, parseErrors, answer, idx, clientVars>>

\* The post resolves; `if (response.data.answer)` is false for an absent or
\* empty answer, and onComplete follows at once.
PostResolve ==
    /\ mode = "replay" /\ pc = "post"
    /\ IF answer = NoAnswer \/ answer = <<>>
       THEN /\ cbLog' = Append(cbLog, OnComplete)
            /\ pc' = "done"
            /\ idx' = idx
       ELSE /\ cbLog' = Append(cbLog, OnChunk(CharAt(answer, 0)))
            /\ pc' = "emit"
            /\ idx' = 1
    /\ UNCHANGED <<mode, authVars, wire, body, parseErrors, answer, clientVars>>

\* The 10 ms timer of one iteration fires: i++, then the next onChunk, or the
\* loop ends and onComplete is called.
EmitNext ==
    /\ mode = "replay" /\ pc = "emit"
    /\ IF idx < Len(answer)
       THEN /\ cbLog' = Append(cbLog, OnChunk(CharAt(answer, idx)))
            /\ idx' = idx + 1
            /\ pc' = pc
       ELSE /\ cbLog' = Append(cbLog, OnComplete)
            /\ idx' = idx
            /\ pc' = "done"
    /\ UNCHANGED <<mode, authVars, wire, body, parseErrors, answer, clientVars>>

(***************************************************************************)
(* SpecStream                                                              *)
(***************************************************************************)
(***************************************************************************)
(* The server's authentication: single-device login                        *)
(***************************************************************************)
Users == {"admin", "user1"}

\* The detail texts of the 401 answers stand for the Chinese literals of the
\* server.
BadCredentialsMsg == "wrong user name or password"
ExpiredMsg == "token expired, log in again"
InvalidMsg == "invalid token"
OtherDeviceMsg == "account logged in on another device, log in again"

\* The life of a token in ticks of the server's clock (24 hours).
TokenLife == 2

NoToken == [sub |-> "", serial |-> 0, exp |-> 0]
\* A token whose format or signature is broken.
Malformed == [sub |-> "admin", serial |-> 0, exp |-> 0]

Expired(token) == token.exp <= serverNow

Ok200(user) == [status |-> 200, detail |-> "", user |-> user]
Unauthorized(detail) == [status |-> 401, detail |-> detail, user |-> ""]

\* A check that takes any signed, unexpired token of a user.
VerifyTokenAnyOfUser(token) ==
    IF token.serial = 0 THEN {Unauthorized(InvalidMsg)}
    ELSE IF Expired(token) THEN {Unauthorized(ExpiredMsg)}
    ELSE {Ok200(token.sub)}

\* The answers the check of a bearer token may give. For a token that is both
\* expired and superseded the documentation names two details and no order.
VerifyToken(token) ==
    IF token.serial = 0 THEN {Unauthorized(InvalidMsg)}
    ELSE IF activeTokens[token.sub] # token
         THEN {Unauthorized(OtherDeviceMsg)} \cup
              (IF Expired(token) THEN {Unauthorized(ExpiredMsg)} ELSE {})
    ELSE IF Expired(token) THEN {Unauthorized(ExpiredMsg)}
    ELSE {Ok200(token.sub)}

ServerIdle ==
    /\ activeTokens = [u \in Users |-> NoToken]
    /\ issued = <<>>
    /\ serverNow = 1
    /\ lastResponse = [n |-> 0, token |-> NoToken, answer |-> Unauthorized("")]

ServerTick ==
    /\ mode = "auth"
    /\ serverNow < MaxServerClock
    /\ serverNow' = serverNow + 1
    /\ UNCHANGED <<mode, streamVars, clientVars, activeTokens, issued, lastResponse>>

\* POST /auth/login with the right password: a new token replaces the user's
\* active token.
Login ==
    /\ mode = "auth"
    /\ Len(issued) < MaxLogins
    /\ \E u \in Users :
         LET token == [sub |-> u, serial |-> Len(issued) + 1, exp |-> serverNow + TokenLife]
         IN  /\ activeTokens' = [activeTokens EXCEPT ![u] = token]
             /\ issued' = Append(issued, token)
    /\ UNCHANGED <<mode, streamVars, clientVars, serverNow, lastResponse>>

\* POST /auth/login with a wrong password: 401, and no token changes.
LoginRejected ==
    /\ mode = "auth"
    /\ lastResponse.n < MaxRequests
    /\ lastResponse' = [n |-> lastResponse.n + 1, token |-> NoToken,
                        answer |-> Unauthorized(BadCredentialsMsg)]
    /\ UNCHANGED <<mode, streamVars, clientVars, activeTokens, issued, serverNow>>

\* A request to /chat, /chat/stream or /auth/me with a bearer token.
Request ==
    /\ mode = "auth"
    /\ lastResponse.n < MaxRequests
    /\ \E token \in {issued[i] : i \in 1..Len(issued)} \cup {Malformed} :
         \E r \in VerifyToken(token) :
            lastResponse' = [n |-> lastResponse.n + 1, token |-> token, answer |-> r]
    /\ UNCHANGED <<mode, streamVars, clientVars, activeTokens, issued, serverNow>>

\* No session is current (null): an empty id, which `!currentSessionId` and
\* `currentSessionId.current ||` treat alike.
Null == ""

ClientsIdle ==
    /\ now = 1
    /\ turns = <<>>
    /\ sessions = <<>>
    /\ currentSessionId = Null
    /\ isLoading = FALSE
    /\ rendered = [sessions |-> <<>>, currentSessionId |-> Null, isLoading |-> FALSE]
    /\ localStorage = <<>>
    /\ messages = <<>>
    /\ mIsLoading = FALSE
    /\ isLoadingRef = FALSE
    /\ streamingId = Null
    /\ sessionRef = Null
    /\ chatHistory = <<>>
    /\ tasks = <<>>

InitStream ==
    /\ mode \in {"bytes", "replay"}
    /\ ClientsIdle
    /\ ServerIdle
    /\ cbLog = <<>>
    /\ parseErrors = 0
    /\ idx = 0
    /\ IF mode = "bytes"
       THEN /\ pc = "fetch"
            /\ wire \in Wires
            /\ body = wire
            /\ answer = NoAnswer
       ELSE /\ pc = "post"
            /\ wire = <<>>
            /\ body = <<>>
            /\ answer \in Answers

NextStream ==
    \/ FetchReject
    \/ FetchNotOk
    \/ FetchOk
    \/ ReadChunk
    \/ ReadDone
    \/ ReadFail
    \/ PostReject
    \/ PostResolve
    \/ EmitNext

SpecStream == InitStream /\ [][NextStream]_vars

(***************************************************************************)
(* Messages and sessions (types/chat.ts)                                   *)
(***************************************************************************)
TitleLimit == 30
\* The placeholder title (a Chinese literal in the source, "new conversation").
NewTitle == "new conversation"
LongQuestion == "0123456789012345678901234567890"
Questions == {"hi", LongQuestion}
\* The text of the k-th chunk a response delivers (k = 0, 1, ...): the chunks
\* of one answer differ, so that their order shows in the content.
ChunkAt(k) == SubSeq("abcdefgh", k + 1, k + 1)

Min(a, b) == IF a < b THEN a ELSE b

\* isStreaming is an optional field: user messages are created without it.
Streaming(m) == "isStreaming" \in DOMAIN m /\ m.isStreaming

\* {...m, content, isStreaming}
WithContent(m, content, streaming) ==
    [id |-> m.id, role |-> m.role, content |-> content,
     timestamp |-> m.timestamp, isStreaming |-> streaming]

Clock == now

\* The web client runs in the modes "web" and "store".
Web == mode \in {"web", "store"}

SessionCap == IF mode = "store" THEN MaxStoreSessions ELSE MaxSessions
ClockCap == IF mode = "store" THEN MaxStoreClock ELSE MaxClock
SendCap == IF mode = "store" THEN MaxStoreSends ELSE MaxSends
ChunkCap == IF mode = "store" THEN MaxStoreChunks ELSE MaxChunks
QuestionsAsked == IF mode = "store" THEN {"hi"} ELSE Questions

Tick ==
    /\ mode \in {"web", "store", "mobile"}
    /\ now < ClockCap
    /\ now' = now + 1
    /\ UNCHANGED <<mode, authVars, streamVars, turns, webVars, mobileVars>>

InFlight(t) == turns[t].status = "streaming"

(***************************************************************************)
(* Web: useHistory                                                         *)
(***************************************************************************)
\* The state the setters of one handler run act on: [sessions,
\* currentSessionId, localStorage].
WebState ==
    [sessions |-> sessions, currentSessionId |-> currentSessionId,
     localStorage |-> localStorage]

Commit(st) ==
    /\ sessions' = st.sessions
    /\ currentSessionId' = st.currentSessionId
    /\ localStorage' = st.localStorage

\* The handlers of the last render close over the committed state: React has
\* rendered since the last state change.
FreshRender ==
    rendered = [sessions |-> sessions, currentSessionId |-> currentSessionId,
                isLoading |-> isLoading]

\* React renders the state this step commits before the next event is
\* handled.
ReRender ==
    rendered' = [sessions |-> sessions', currentSessionId |-> currentSessionId',
                 isLoading |-> isLoading']

\* message.content.slice(0, 30) + (message.content.length > 30 ? '...' : '')
WebTitle(content) ==
    SubSeq(content, 1, Min(TitleLimit, Len(content)))
        \o (IF Len(content) > TitleLimit THEN "..." ELSE "")

\* setSessions(prevSessions => ...): a functional update of the pending state,
\* which also saves the new list.
UpdateSessionMessages(st, sessionId, message) ==
    LET newSessions ==
          [i \in 1..Len(st.sessions) |->
             LET session == st.sessions[i]
                 updatedMessages == Append(session.messages, message)
             IN  IF session.id = sessionId
                 THEN [session EXCEPT
                         !.messages = updatedMessages,
                         !.title = IF Len(updatedMessages) = 1 /\ message.role = "user"
                                   THEN WebTitle(message.content) ELSE @,
                         !.updatedAt = Clock]
                 ELSE session]
    IN  [st EXCEPT !.sessions = newSessions, !.localStorage = newSessions]

\* addMessage of the render `closure`: currentSessionId and sessions are the
\* values of that render, not the pending state.
AddMessage(closure, st, message) ==
    IF closure.currentSessionId = Null
    THEN LET newSession ==
               [id |-> "session-" \o ToString(Clock),
                title |-> IF message.role = "user"
                          THEN WebTitle(message.content) ELSE NewTitle,
                messages |-> <<message>>,
                createdAt |-> Clock, updatedAt |-> Clock]
             newSessions == <<newSession>> \o closure.sessions
         IN  [sessions |-> newSessions, currentSessionId |-> newSession.id,
              localStorage |-> newSessions]
    ELSE UpdateSessionMessages(st, closure.currentSessionId, message)

\* An updateLastMessage that saves on every call.
UpdateLastMessageAlwaysSaves(sid, st, content, streaming) ==
    IF sid = Null THEN st
    ELSE LET newSessions ==
               [i \in 1..Len(st.sessions) |->
                  LET session == st.sessions[i]
                      lastIndex == Len(session.messages)
                  IN  IF session.id = sid /\ Len(session.messages) > 0
                      THEN [session EXCEPT
                              !.messages[lastIndex] = WithContent(@, content, streaming),
                              !.updatedAt = Clock]
                      ELSE session]
         IN  [st EXCEPT !.sessions = newSessions, !.localStorage = newSessions]

\* updateLastMessage of a render whose currentSessionId is `sid`.
UpdateLastMessage(sid, st, content, streaming) ==
    IF sid = Null THEN st
    ELSE LET newSessions ==
               [i \in 1..Len(st.sessions) |->
                  LET session == st.sessions[i]
                      lastIndex == Len(session.messages)
                  IN  IF session.id = sid /\ Len(session.messages) > 0
                      THEN [session EXCEPT
                              !.messages[lastIndex] = WithContent(@, content, streaming),
                              !.updatedAt = Clock]
                      ELSE session]
         IN  [st EXCEPT !.sessions = newSessions,
                        !.localStorage = IF streaming THEN @ ELSE newSessions]

WebCreateSession ==
    /\ Web
    /\ FreshRender
    /\ Len(rendered.sessions) < SessionCap
    /\ LET newSession ==
             [id |-> "session-" \o ToString(Clock), title |-> NewTitle,
              messages |-> <<>>, createdAt |-> Clock, updatedAt |-> Clock]
           newSessions == <<newSession>> \o rendered.sessions
       IN  Commit([sessions |-> newSessions, currentSessionId |-> newSession.id,
                   localStorage |-> newSessions])
    /\ isLoading' = isLoading
    /\ ReRender
    /\ UNCHANGED <<mode, authVars, streamVars, now, turns, mobileVars>>

WebDeleteSession ==
    /\ Web
    /\ FreshRender
    /\ \E k \in 1..Len(rendered.sessions) :
         LET sessionId == rendered.sessions[k].id
             newSessions == SelectSeq(rendered.sessions, LAMBDA x : x.id # sessionId)
         IN  Commit([sessions |-> newSessions,
                     currentSessionId |->
                        IF rendered.currentSessionId = sessionId
                        THEN (IF Len(newSessions) > 0 THEN newSessions[1].id ELSE Null)
                        ELSE currentSessionId,
                     localStorage |-> newSessions])
    /\ isLoading' = isLoading
    /\ ReRender
    /\ UNCHANGED <<mode, authVars, streamVars, now, turns, mobileVars>>

\* onSelectSession = setCurrentSessionId
WebSelectSession ==
    /\ Web
    /\ FreshRender
    /\ \E k \in 1..Len(rendered.sessions) :
         /\ rendered.sessions[k].id # currentSessionId
         /\ currentSessionId' = rendered.sessions[k].id
    /\ sessions' = sessions /\ isLoading' = isLoading
    /\ ReRender
    /\ UNCHANGED <<mode, authVars, streamVars, now, turns, localStorage, mobileVars>>

\* JSON.stringify of an object: its own properties in the order they were
\* written, as <<key, value>> pairs; a property that was never set (a user
\* message has no isStreaming) is not written.
StringifyObject(obj, keys) ==
    LET present == SelectSeq(keys, LAMBDA k : k \in DOMAIN obj)
    IN  [i \in 1..Len(present) |-> <<present[i], obj[present[i]]>>]

\* JSON.parse of such an object.
ParseObject(pairs) ==
    [k \in {pairs[i][1] : i \in 1..Len(pairs)} |->
       LET at == CHOOSE i \in 1..Len(pairs) : pairs[i][1] = k IN pairs[at][2]]

MessageKeys == <<"id", "role", "content", "timestamp", "isStreaming">>
SessionKeys == <<"id", "title", "messages", "createdAt", "updatedAt">>

\* JSON.stringify(newSessions) in saveToStorage
StringifySessions(list) ==
    [i \in 1..Len(list) |->
       StringifyObject(
         [list[i] EXCEPT !.messages =
            [j \in 1..Len(@) |-> StringifyObject(@[j], MessageKeys)]],
         SessionKeys)]

\* A parse that hands back the messages of a session in reverse order.
ParseSessionsReversed(text) ==
    [i \in 1..Len(text) |->
       LET session == ParseObject(text[i])
       IN  [session EXCEPT !.messages =
              [j \in 1..Len(@) |-> ParseObject(@[Len(@) + 1 - j])]]]

\* JSON.parse(stored) in the load effect
ParseSessions(text) ==
    [i \in 1..Len(text) |->
       LET session == ParseObject(text[i])
       IN  [session EXCEPT !.messages = [j \in 1..Len(@) |-> ParseObject(@[j])]]]

\* parsed.sort((a, b) => b.updatedAt - a.updatedAt): a stable sort, latest first.
RECURSIVE InsertLatestFirst(_, _)
InsertLatestFirst(sorted, x) ==
    IF sorted = <<>> THEN <<x>>
    ELSE IF Head(sorted).updatedAt < x.updatedAt THEN <<x>> \o sorted
    ELSE <<Head(sorted)>> \o InsertLatestFirst(Tail(sorted), x)

\* No sort: the list as it was stored.
KeepStoredOrder(list) == list

RECURSIVE SortLatestFirst(_)
SortLatestFirst(list) ==
    IF list = <<>> THEN <<>>
    ELSE InsertLatestFirst(SortLatestFirst(SubSeq(list, 1, Len(list) - 1)),
                           list[Len(list)])

\* The page is loaded again: the state is that of a first render, the
\* requests of the page before are gone, and the load effect reads the store.
\* sort() sorts `parsed` in place, the array that was given to setSessions.
WebReload ==
    /\ Web
    /\ LET parsed == SortLatestFirst(ParseSessions(StringifySessions(localStorage)))
       IN  /\ sessions' = parsed
           /\ currentSessionId' = IF Len(parsed) > 0 THEN parsed[1].id ELSE Null
    /\ isLoading' = FALSE
    /\ ReRender
    /\ turns' = [t \in 1..Len(turns) |->
                   IF turns[t].status = "streaming"
                   THEN [turns[t] EXCEPT !.status = "aborted"] ELSE turns[t]]
    /\ UNCHANGED <<mode, authVars, streamVars, now, localStorage, mobileVars>>

\* React renders after a send: until then the handlers are those of the
\* render the send was made from.
WebRender ==
    /\ Web
    /\ rendered # [sessions |-> sessions, currentSessionId |-> currentSessionId,
                   isLoading |-> isLoading]
    /\ rendered' = [sessions |-> sessions, currentSessionId |-> currentSessionId,
                    isLoading |-> isLoading]
    /\ UNCHANGED <<mode, authVars, streamVars, now, turns, sessions, currentSessionId,
                   isLoading, localStorage, mobileVars>>

(***************************************************************************)
(* Web: useChat                                                            *)
(***************************************************************************)
\* The apology text of onError (a Chinese literal in the source).
WebApology == "sorry, an error occurred while generating the answer"

\* ChatInput.handleSubmit (guarded by the rendered loading prop) calls
\* sendMessage of the last render, up to its await.
WebSendMessage ==
    /\ Web
    /\ ~rendered.isLoading
    /\ Len(turns) < SendCap
    /\ \E question \in QuestionsAsked :
         LET userMessage ==
               [id |-> "user-" \o ToString(Clock), role |-> "user",
                content |-> question, timestamp |-> Clock]
             assistantMessage ==
               [id |-> "assistant-" \o ToString(Clock), role |-> "assistant",
                content |-> "", timestamp |-> Clock, isStreaming |-> TRUE]
             st1 == AddMessage(rendered, WebState, userMessage)
             st2 == AddMessage(rendered, st1, assistantMessage)
         IN  /\ Commit(st2)
             /\ turns' = Append(turns,
                   [sid |-> rendered.currentSessionId, question |-> question,
                    userId |-> userMessage.id, aiId |-> assistantMessage.id,
                    fullContent |-> "", nChunks |-> 0, status |-> "streaming"])
    /\ isLoading' = TRUE
    /\ UNCHANGED <<mode, authVars, streamVars, now, rendered, mobileVars>>

\* The onChunk callback of turn t.
WebOnChunk ==
    /\ Web
    /\ \E t \in 1..Len(turns) :
         /\ InFlight(t)
         /\ turns[t].nChunks < ChunkCap
         /\ LET chunk == ChunkAt(turns[t].nChunks)
                fullContent == turns[t].fullContent \o chunk IN
            /\ turns' = [turns EXCEPT ![t].fullContent = fullContent,
                                      ![t].nChunks = @ + 1]
            /\ Commit(UpdateLastMessage(turns[t].sid, WebState, fullContent, TRUE))
    /\ isLoading' = isLoading
    /\ ReRender
    /\ UNCHANGED <<mode, authVars, streamVars, now, mobileVars>>

\* The onComplete callback of turn t.
WebOnComplete ==
    /\ Web
    /\ \E t \in 1..Len(turns) :
         /\ InFlight(t)
         /\ turns' = [turns EXCEPT ![t].status = "complete"]
         /\ Commit(UpdateLastMessage(turns[t].sid, WebState, turns[t].fullContent, FALSE))
    /\ isLoading' = FALSE
    /\ ReRender
    /\ UNCHANGED <<mode, authVars, streamVars, now, mobileVars>>

\* The onError callback of turn t.
WebOnError ==
    /\ Web
    /\ \E t \in 1..Len(turns) :
         /\ InFlight(t)
         /\ turns' = [turns EXCEPT ![t].status = "error"]
         /\ LET errorContent == IF turns[t].fullContent # ""
                                THEN turns[t].fullContent ELSE WebApology
            IN  Commit(UpdateLastMessage(turns[t].sid, WebState, errorContent, FALSE))
    /\ isLoading' = FALSE
    /\ ReRender
    /\ UNCHANGED <<mode, authVars, streamVars, now, mobileVars>>

(***************************************************************************)
(* Mobile: ChatScreen                                                      *)
(***************************************************************************)
\* The prefix of the error message of onError (a Chinese literal in the source).
MobileApology == "sorry, an error occurred: "
ErrorTexts == {"network"}

\* updatedMessages.find(m => m.role === 'user')
FirstUser(msgs) ==
    LET users == SelectSeq(msgs, LAMBDA m : m.role = "user")
    IN  IF users = <<>> THEN <<>> ELSE <<users[1]>>

\* content.substring(0, 30) || '新对话'
MobileTitle(content) ==
    LET cut == SubSeq(content, 1, Min(TitleLimit, Len(content)))
    IN  IF cut # "" THEN cut ELSE NewTitle

\* sessions.findIndex(s => s.id === id), 0 when there is none
FindIndex(list, id) ==
    IF \E i \in 1..Len(list) : list[i].id = id
    THEN CHOOSE i \in 1..Len(list) :
            /\ list[i].id = id
            /\ \A j \in 1..(i - 1) : list[j].id # id
    ELSE 0

\* A saveHistory that never looks for the session and always pushes a new one.
SaveHistoryAlwaysPushes(stored, updatedMessages) ==
    LET firstUser == FirstUser(updatedMessages)
        newSessionId == IF sessionRef # Null THEN sessionRef
                        ELSE "session_" \o ToString(Clock)
    IN  [list |-> Append(stored,
                     [id |-> newSessionId,
                      title |-> IF firstUser # <<>>
                                THEN MobileTitle(firstUser[1].content)
                                ELSE NewTitle,
                      messages |-> updatedMessages,
                      createdAt |-> Clock, updatedAt |-> Clock]),
         sessionRef |-> newSessionId]

\* saveHistory after its await, on the stored list `stored`:
\* [list, sessionRef] as it leaves them.
SaveHistory(stored, updatedMessages) ==
    LET existing == IF sessionRef # Null THEN FindIndex(stored, sessionRef) ELSE 0
        firstUser == FirstUser(updatedMessages)
    IN  IF existing # 0
        THEN [list |-> [stored EXCEPT
                          ![existing].messages = updatedMessages,
                          ![existing].updatedAt = Clock,
                          ![existing].title = IF firstUser # <<>>
                                              THEN MobileTitle(firstUser[1].content)
                                              ELSE @],
              sessionRef |-> sessionRef]
        ELSE LET newSessionId == IF sessionRef # Null THEN sessionRef
                                 ELSE "session_" \o ToString(Clock)
             IN  [list |-> Append(stored,
                              [id |-> newSessionId,
                               title |-> IF firstUser # <<>>
                                         THEN MobileTitle(firstUser[1].content)
                                         ELSE NewTitle,
                               messages |-> updatedMessages,
                               createdAt |-> Clock, updatedAt |-> Clock]),
                  sessionRef |-> newSessionId]

\* The await Storage.getChatHistory() of the oldest waiting saveHistory
\* resolves.
SaveHistoryResume ==
    /\ mode = "mobile"
    /\ tasks # <<>> /\ Head(tasks).kind = "save"
    /\ LET r == SaveHistory(chatHistory, Head(tasks).messages) IN
       /\ chatHistory' = r.list
       /\ sessionRef' = r.sessionRef
    /\ tasks' = Tail(tasks)
    /\ UNCHANGED <<mode, authVars, streamVars, now, turns, webVars, messages, mIsLoading,
                   isLoadingRef, streamingId>>

\* The await of the oldest waiting loadHistory(false, sessionId) resolves.
LoadHistoryResume ==
    /\ mode = "mobile"
    /\ tasks # <<>> /\ Head(tasks).kind = "load"
    /\ LET sessionId == Head(tasks).sessionId
           at == FindIndex(chatHistory, sessionId)
       IN  IF sessionId # Null
           THEN IF at # 0
                THEN /\ messages' = chatHistory[at].messages
                     /\ sessionRef' = chatHistory[at].id
                ELSE /\ messages' = <<>>
                     /\ sessionRef' = Null
           ELSE IF Len(chatHistory) > 0
                THEN /\ messages' = chatHistory[Len(chatHistory)].messages
                     /\ sessionRef' = chatHistory[Len(chatHistory)].id
                ELSE /\ messages' = messages
                     /\ sessionRef' = Null
    /\ tasks' = Tail(tasks)
    /\ UNCHANGED <<mode, authVars, streamVars, now, turns, webVars, mIsLoading, isLoadingRef,
                   streamingId, chatHistory>>

\* The route effect with params.createNew.
RouteCreateNew ==
    /\ mode = "mobile"
    /\ sessionRef # "session_" \o ToString(Clock) \/ messages # <<>>
    /\ messages' = <<>>
    /\ sessionRef' = "session_" \o ToString(Clock)
    /\ UNCHANGED <<mode, authVars, streamVars, now, turns, webVars, mIsLoading, isLoadingRef,
                   streamingId, chatHistory, tasks>>

\* The route effect with params.sessionId: loadHistory(false, sessionId) up
\* to its await.
RouteSession ==
    /\ mode = "mobile"
    /\ Len(tasks) < MaxTasks
    /\ \E k \in 1..Len(chatHistory) :
         /\ chatHistory[k].id # sessionRef
         /\ tasks' = Append(tasks, [kind |-> "load", sessionId |-> chatHistory[k].id,
                                    messages |-> <<>>])
    /\ UNCHANGED <<mode, authVars, streamVars, now, turns, webVars, messages, mIsLoading,
                   isLoadingRef, streamingId, sessionRef, chatHistory>>

\* The focus effect: loadHistory(false) up to its await.
FocusLoad ==
    /\ mode = "mobile"
    /\ Len(tasks) < MaxTasks
    /\ messages = <<>> /\ sessionRef = Null
    /\ tasks' = Append(tasks, [kind |-> "load", sessionId |-> Null, messages |-> <<>>])
    /\ UNCHANGED <<mode, authVars, streamVars, now, turns, webVars, messages, mIsLoading,
                   isLoadingRef, streamingId, sessionRef, chatHistory>>

\* handleSend while isLoadingRef.current: logged and ignored.
HandleSendIgnored ==
    /\ mode = "mobile"
    /\ isLoadingRef
    /\ UNCHANGED vars

\* handleSend up to its await.
HandleSend ==
    /\ mode = "mobile"
    /\ ~isLoadingRef
    /\ Len(turns) < SendCap
    /\ \E content \in QuestionsAsked :
         LET userMessage ==
               [id |-> "user_" \o ToString(Clock), role |-> "user",
                content |-> content, timestamp |-> Clock]
             aiMessage ==
               [id |-> "ai_" \o ToString(Clock), role |-> "assistant",
                content |-> "", timestamp |-> Clock, isStreaming |-> TRUE]
         IN  /\ messages' = messages \o <<userMessage, aiMessage>>
             /\ streamingId' = aiMessage.id
             /\ turns' = Append(turns,
                   [sid |-> sessionRef, question |-> content,
                    userId |-> userMessage.id, aiId |-> aiMessage.id,
                    fullContent |-> "", nChunks |-> 0, status |-> "streaming"])
    /\ isLoadingRef' = TRUE
    /\ mIsLoading' = TRUE
    /\ UNCHANGED <<mode, authVars, streamVars, now, webVars, sessionRef, chatHistory, tasks>>

LastIs(msgs, id) == Len(msgs) > 0 /\ msgs[Len(msgs)].id = id

\* The onChunk callback of turn t; fullContent records the text delivered.
MobileOnChunk ==
    /\ mode = "mobile"
    /\ \E t \in 1..Len(turns) :
         /\ InFlight(t)
         /\ turns[t].nChunks < ChunkCap
         /\ LET chunk == ChunkAt(turns[t].nChunks) IN
            /\ turns' = [turns EXCEPT ![t].fullContent = @ \o chunk,
                                      ![t].nChunks = @ + 1]
            /\ messages' = IF LastIs(messages, turns[t].aiId)
                           THEN [messages EXCEPT ![Len(messages)].content = @ \o chunk]
                           ELSE messages
    /\ UNCHANGED <<mode, authVars, streamVars, now, webVars, mIsLoading, isLoadingRef,
                   streamingId, sessionRef, chatHistory, tasks>>

\* An onComplete that saves the messages without clearing the flag.
MobileOnCompleteKeepsFlag ==
    /\ mode = "mobile"
    /\ \E t \in 1..Len(turns) :
         /\ InFlight(t)
         /\ turns' = [turns EXCEPT ![t].status = "complete"]
         /\ IF LastIs(messages, turns[t].aiId)
            THEN /\ messages' = messages
                 /\ tasks' = Append(tasks, [kind |-> "save", sessionId |-> Null,
                                            messages |-> messages])
            ELSE /\ messages' = messages
                 /\ tasks' = tasks
    /\ isLoadingRef' = FALSE
    /\ mIsLoading' = FALSE
    /\ streamingId' = Null
    /\ UNCHANGED <<mode, authVars, streamVars, now, webVars, sessionRef, chatHistory>>

\* The onComplete callback of turn t; saveHistory runs up to its await.
MobileOnComplete ==
    /\ mode = "mobile"
    /\ \E t \in 1..Len(turns) :
         /\ InFlight(t)
         /\ turns' = [turns EXCEPT ![t].status = "complete"]
         /\ IF LastIs(messages, turns[t].aiId)
            THEN LET updated == [messages EXCEPT ![Len(messages)].isStreaming = FALSE]
                 IN  /\ messages' = updated
                     /\ tasks' = Append(tasks, [kind |-> "save", sessionId |-> Null,
                                                messages |-> updated])
            ELSE /\ messages' = messages
                 /\ tasks' = tasks
    /\ isLoadingRef' = FALSE
    /\ mIsLoading' = FALSE
    /\ streamingId' = Null
    /\ UNCHANGED <<mode, authVars, streamVars, now, webVars, sessionRef, chatHistory>>

\* The onError callback of turn t.
MobileOnError ==
    /\ mode = "mobile"
    /\ \E t \in 1..Len(turns), error \in ErrorTexts :
         /\ InFlight(t)
         /\ turns' = [turns EXCEPT ![t].status = "error"]
         /\ messages' = Append(SelectSeq(messages, LAMBDA m : m.id # turns[t].aiId),
                               [id |-> "error_" \o ToString(Clock), role |-> "assistant",
                                content |-> MobileApology \o error, timestamp |-> Clock])
    /\ isLoadingRef' = FALSE
    /\ mIsLoading' = FALSE
    /\ streamingId' = Null
    /\ UNCHANGED <<mode, authVars, streamVars, now, webVars, sessionRef, chatHistory, tasks>>

(***************************************************************************)
(* Spec: the two clients                                                   *)
(***************************************************************************)
Init ==
    /\ mode \in {"web", "mobile"}
    /\ pc = "idle"
    /\ wire = <<>>
    /\ body = <<>>
    /\ parseErrors = 0
    /\ answer = NoAnswer
    /\ idx = 0
    /\ cbLog = <<>>
    /\ ClientsIdle
    /\ ServerIdle

Next ==
    \/ Tick
    \/ WebCreateSession
    \/ WebDeleteSession
    \/ WebSelectSession
    \/ WebReload
    \/ WebRender
    \/ WebSendMessage
    \/ WebOnChunk
    \/ WebOnComplete
    \/ WebOnError
    \/ HandleSendIgnored
    \/ HandleSend
    \/ MobileOnChunk
    \/ MobileOnComplete
    \/ MobileOnError
    \/ SaveHistoryResume
    \/ LoadHistoryResume
    \/ RouteCreateNew
    \/ RouteSession
    \/ FocusLoad

Spec == Init /\ [][Next]_vars

(***************************************************************************)
(* SpecStore: the web client and its session store                         *)
(***************************************************************************)
InitStore ==
    /\ mode = "store"
    /\ pc = "idle"
    /\ wire = <<>>
    /\ body = <<>>
    /\ parseErrors = 0
    /\ answer = NoAnswer
    /\ idx = 0
    /\ cbLog = <<>>
    /\ ClientsIdle
    /\ ServerIdle

NextStore ==
    \/ Tick
    \/ WebCreateSession
    \/ WebDeleteSession
    \/ WebSelectSession
    \/ WebReload
    \/ WebRender
    \/ WebSendMessage
    \/ WebOnChunk
    \/ WebOnComplete
    \/ WebOnError

SpecStore == InitStore /\ [][NextStore]_vars

(***************************************************************************)
(* SpecAuth: logins and requests at the server                             *)
(***************************************************************************)
InitAuth ==
    /\ mode = "auth"
    /\ pc = "idle"
    /\ wire = <<>>
    /\ body = <<>>
    /\ parseErrors = 0
    /\ answer = NoAnswer
    /\ idx = 0
    /\ cbLog = <<>>
    /\ ClientsIdle
    /\ ServerIdle

NextAuth ==
    \/ ServerTick
    \/ Login
    \/ LoginRejected
    \/ Request

SpecAuth == InitAuth /\ [][NextAuth]_vars

(***************************************************************************)
(* Claims about the Stream Consumers                                       *)
(***************************************************************************)
TerminalCalls(log) == Cardinality({i \in 1..Len(log) : IsTerminal(log[i])})

\* C1: in every invocation of either Stream Consumer at most one terminal
\* callback (onComplete or onError) is ever invoked, nothing is invoked after
\* it (it stays the last callback made), and the consumer has returned exactly
\* when one terminal callback has been made.
C1_ExactlyOneTerminal ==
    /\ TerminalCalls(cbLog) <= 1
    /\ \A i \in 1..Len(cbLog) : IsTerminal(cbLog[i]) => i = Len(cbLog)
    /\ (pc = "done") <=> (TerminalCalls(cbLog) = 1)

\* A done frame and a content frame after it arrived in one read; only
\* onComplete was invoked.
C1_Witness ==
    /\ mode = "bytes" /\ pc = "done"
    /\ wire = FrameLine(DoneFrame) \o FrameLine(ContentA)
    /\ body = <<>>
    /\ cbLog = <<OnComplete>>

\* The callbacks one well-formed frame stands for.
FrameCalls(d) ==
    IF d.error # "" THEN <<OnError(d.error)>>
    ELSE (IF d.content # "" THEN <<OnChunk(d.content)>> ELSE <<>>)
         \o (IF d.done THEN <<OnComplete>> ELSE <<>>)

IsDataLine(line) == StartsWith(line, "data: ")
IsMalformed(line) == IsDataLine(line) /\ ~JSONParse(Slice(line, 6)).ok
IsValidFrame(line) == IsDataLine(line) /\ JSONParse(Slice(line, 6)).ok

\* The callbacks of the well-formed frames among `lines`, up to and including
\* the first terminal one; every other line stands for no callback.
RECURSIVE ExpectedCalls(_)
ExpectedCalls(lines) ==
    IF lines = <<>> THEN <<>>
    ELSE IF ~IsValidFrame(Head(lines)) THEN ExpectedCalls(Tail(lines))
    ELSE LET calls == FrameCalls(JSONParse(Slice(Head(lines), 6))) IN
         IF \E i \in 1..Len(calls) : IsTerminal(calls[i]) THEN calls
         ELSE calls \o ExpectedCalls(Tail(lines))

\* The malformed lines of `lines` that precede its first terminal frame.
RECURSIVE MalformedBeforeEnd(_)
MalformedBeforeEnd(lines) ==
    IF lines = <<>> THEN 0
    ELSE IF IsMalformed(Head(lines)) THEN 1 + MalformedBeforeEnd(Tail(lines))
    ELSE IF IsValidFrame(Head(lines))
            /\ (JSONParse(Slice(Head(lines), 6)).error # ""
                \/ JSONParse(Slice(Head(lines), 6)).done)
         THEN 0
         ELSE MalformedBeforeEnd(Tail(lines))

\* C8: in byte-stream mode a read that returns text adds exactly the
\* callbacks of its well-formed frames: a malformed frame (a 'data: ' line
\* whose payload is no JSON) is logged, invokes no callback and does not end
\* the stream, so the well-formed frames after it still invoke onChunk and
\* the terminal callback.
C8_MalformedFrameSkipped ==
    [][(mode = "bytes" /\ pc = "read" /\ body' # body) =>
         LET lines == Split(SubSeq(body, 1, Len(body) - Len(body')))
             calls == ExpectedCalls(lines)
         IN  /\ cbLog' = cbLog \o calls
             /\ parseErrors' = parseErrors + MalformedBeforeEnd(lines)
             /\ (pc' = "done") <=> (\E i \in 1..Len(calls) : IsTerminal(calls[i]))
             /\ (pc' # "done") => pc' = "read"]_vars

\* A malformed frame was skipped, and the content frame and the done frame
\* after it were delivered.
C8_Witness ==
    /\ mode = "bytes" /\ pc = "done"
    /\ wire = FrameLine(NotJson) \o FrameLine(ContentA) \o FrameLine(DoneFrame)
    /\ parseErrors = 1
    /\ cbLog = <<OnChunk("a"), OnComplete>>

(***************************************************************************)
(* Claims about the two clients                                            *)
(***************************************************************************)
Ids(msgs) == {msgs[i].id : i \in 1..Len(msgs)}
StreamingCount(msgs) == Cardinality({i \in 1..Len(msgs) : Streaming(msgs[i])})
InFlightTurns == {t \in 1..Len(turns) : InFlight(t)}

\* The message lists held in memory, and those held in the persisted store.
MemoryLists ==
    IF Web THEN {sessions[i].messages : i \in 1..Len(sessions)}
    ELSE {messages}
StoredSessions == IF Web THEN localStorage ELSE chatHistory
StoredLists == {StoredSessions[i].messages : i \in 1..Len(StoredSessions)}

\* Turn t is the only turn whose placeholder carries its id.
OwnId(t) == \A u \in 1..Len(turns) : u # t => turns[u].aiId # turns[t].aiId

\* The messages of `msgs` that carry the placeholder id of turn t.
Placeholders(t, msgs) == {msgs[i] : i \in {j \in 1..Len(msgs) : msgs[j].id = turns[t].aiId}}

\* C2: for every turn that ended with onComplete, the placeholder assistant
\* message of that turn has content equal to the concatenation, in call
\* order, of the texts delivered by onChunk, and isStreaming = false.
C2_CompleteContent ==
    \A t \in 1..Len(turns) :
        (turns[t].status = "complete" /\ OwnId(t)) =>
            \A msgs \in MemoryLists : \A m \in Placeholders(t, msgs) :
                m.content = turns[t].fullContent /\ ~Streaming(m)

\* C3: a send made while an earlier send has had no terminal callback starts
\* nothing: at most one turn is ever in flight.
C3_SingleTurnInFlight == Cardinality(InFlightTurns) <= 1

\* C4: every session, in memory and in the persisted store, holds at most
\* one message with isStreaming = true.
C4_OneStreamingMessage ==
    \A msgs \in MemoryLists \cup StoredLists : StreamingCount(msgs) <= 1

\* Turn t receives its onError callback in this step.
ErrorStep(t) == InFlight(t) /\ turns'[t].status = "error" /\ OwnId(t)

HasPrefix(m, p) == StartsWith(m.content, p)

\* C5: when a turn ends with onError its placeholder is not left in the
\* transcript as it was and the user message is kept. Mobile: the placeholder
\* is absent and exactly one synthetic error message (role assistant, content
\* starting with the apology) has been appended. Web: the message in the
\* placeholder's place is the synthetic error message, not streaming and
\* with no half-written answer.
C5_ErrorReplacesPlaceholder ==
    [][\A t \in 1..Len(turns) : ErrorStep(t) =>
         IF mode = "mobile"
         THEN /\ Placeholders(t, messages') = {}
              /\ turns[t].userId \in Ids(messages) => turns[t].userId \in Ids(messages')
              /\ Len(messages') > 0
              /\ messages'[Len(messages')].role = "assistant"
              /\ HasPrefix(messages'[Len(messages')], MobileApology)
              /\ Cardinality({i \in 1..Len(messages') :
                                HasPrefix(messages'[i], MobileApology)})
                 = Cardinality({i \in 1..Len(messages) :
                                HasPrefix(messages[i], MobileApology)}) + 1
         ELSE \A i \in 1..Len(sessions) :
                Placeholders(t, sessions[i].messages) # {} =>
                  /\ i \in 1..Len(sessions')
                  /\ turns[t].userId \in Ids(sessions[i].messages)
                       => turns[t].userId \in Ids(sessions'[i].messages)
                  /\ \A m \in Placeholders(t, sessions'[i].messages) :
                       m.content = WebApology /\ ~Streaming(m)
      ]_vars

\* C6: after the onError callback of a turn the persisted store holds (or a
\* save already under way will write) the transcript held in memory for that
\* turn: the user message and the error outcome, and no streaming message.
C6_FailedTurnPersisted ==
    [][\A t \in 1..Len(turns) : ErrorStep(t) =>
         IF mode = "mobile"
         THEN \/ \E k \in 1..Len(chatHistory') : chatHistory'[k].messages = messages'
              \/ \E k \in 1..Len(tasks') :
                   tasks'[k].kind = "save" /\ tasks'[k].messages = messages'
         ELSE \A i \in 1..Len(sessions') :
                turns[t].aiId \in Ids(sessions'[i].messages) =>
                  /\ turns[t].userId \in Ids(sessions'[i].messages)
                  /\ StreamingCount(sessions'[i].messages) = 0
                  /\ \E k \in 1..Len(localStorage') : localStorage'[k] = sessions'[i]
      ]_vars

\* C7: the loading flag is true exactly while an accepted send has had no
\* terminal callback.
C7_LoadingWhileInFlight ==
    IF Web
    THEN isLoading <=> (InFlightTurns # {})
    ELSE /\ isLoadingRef <=> (InFlightTurns # {})
         /\ mIsLoading <=> (InFlightTurns # {})

\* C9: a send made when no session is current creates exactly one session,
\* makes it current, and that session holds the user message and then the
\* placeholder of the turn (web: at the send; mobile: when saveHistory stores
\* the turn).
C9_LazySession ==
    [][/\ (Web /\ Len(turns') = Len(turns) + 1
             /\ turns'[Len(turns')].sid = Null) =>
            /\ Len(sessions') = Len(sessions) + 1
            /\ \E i \in 1..Len(sessions') :
                 /\ sessions'[i].id = currentSessionId'
                 /\ Len(sessions'[i].messages) = 2
                 /\ sessions'[i].messages[1].id = turns'[Len(turns')].userId
                 /\ sessions'[i].messages[2].id = turns'[Len(turns')].aiId
       /\ (mode = "mobile" /\ tasks # <<>> /\ tasks' = Tail(tasks)
             /\ Head(tasks).kind = "save" /\ sessionRef = Null) =>
            /\ Len(chatHistory') = Len(chatHistory) + 1
            /\ chatHistory'[Len(chatHistory')].id = sessionRef'
            /\ chatHistory'[Len(chatHistory')].messages = Head(tasks).messages
      ]_vars

\* C10: the title of every persisted session is derived from its first
\* user-role message (cut to 30 characters; web appends '...' to a longer
\* one), and a session without a user-role message carries the placeholder
\* title.
C10_TitleFromFirstUser ==
    \A k \in 1..Len(StoredSessions) :
        LET firstUser == FirstUser(StoredSessions[k].messages) IN
        StoredSessions[k].title =
            IF firstUser = <<>> THEN NewTitle
            ELSE IF Web THEN WebTitle(firstUser[1].content)
            ELSE MobileTitle(firstUser[1].content)

(***************************************************************************)
(* Claims about the session store                                          *)
(***************************************************************************)
SessionIds(list) == {list[i].id : i \in 1..Len(list)}
Without(list, id) == SelectSeq(list, LAMBDA x : x.id # id)
DistinctIds(list) == \A i, j \in 1..Len(list) : list[i].id = list[j].id => i = j

\* This step is deleteSession(id).
DeleteStep(id) ==
    /\ Web /\ FreshRender
    /\ id \in SessionIds(sessions)
    /\ sessions' = Without(sessions, id)
    /\ localStorage' = sessions'
    /\ turns' = turns /\ isLoading' = isLoading

\* C11: deleteSession(id) of the current session makes current the remaining
\* session with the greatest updatedAt, or none when no session remains.
C11_DeleteSelectsLatest ==
    [][\A id \in SessionIds(sessions) :
         (DeleteStep(id) /\ currentSessionId = id /\ DistinctIds(sessions)) =>
            IF sessions' = <<>> THEN currentSessionId' = Null
            ELSE \E i \in 1..Len(sessions') :
                   /\ sessions'[i].id = currentSessionId'
                   /\ \A j \in 1..Len(sessions') :
                        sessions'[j].updatedAt <= sessions'[i].updatedAt
      ]_vars

\* The texts given to onChunk so far, in call order.
ChunkTexts(log) ==
    LET chunks == SelectSeq(log, LAMBDA c : c.cb = "onChunk")
    IN  [i \in 1..Len(chunks) |-> chunks[i].arg]

\* The characters (code points) of a string of code units: a high surrogate
\* followed by a low one is one character.
RECURSIVE Characters(_)
Characters(str) ==
    IF str = <<>> THEN <<>>
    ELSE IF Len(str) >= 2 /\ str[1] = HighSurrogate /\ str[2] = LowSurrogate
         THEN <<<<str[1], str[2]>>>> \o Characters(SubSeq(str, 3, Len(str)))
         ELSE <<<<str[1]>>>> \o Characters(Tail(str))

\* C12: in buffered-replay mode the texts given to onChunk are, in call
\* order, the units of the answer emitted so far; when the consumer has
\* returned with onComplete their concatenation is the answer, their number
\* is the answer's length, the characters are those of the answer, and an
\* absent or empty answer has had no onChunk.
C12_ReplayEmitsAnswer ==
    mode = "replay" =>
        LET text == IF answer = NoAnswer THEN <<>> ELSE answer
            emitted == ChunkTexts(cbLog)
        IN  /\ Len(emitted) <= Len(text)
            /\ emitted = SubSeq(text, 1, Len(emitted))
            /\ (cbLog # <<>> /\ cbLog[Len(cbLog)] = OnComplete) =>
                  /\ emitted = text
                  /\ Len(emitted) = Len(text)
                  /\ Characters(emitted) = Characters(text)

\* An answer with a CJK character and a surrogate pair was replayed.
C12_Witness ==
    /\ mode = "replay" /\ pc = "done"
    /\ answer = <<CJK, HighSurrogate, LowSurrogate>>
    /\ cbLog = <<OnChunk(CJK), OnChunk(HighSurrogate), OnChunk(LowSurrogate), OnComplete>>

(***************************************************************************)
(* Claims about turns and transcripts                                      *)
(***************************************************************************)
\* This step is a callback (onChunk, onComplete or onError) of turn t.
CallbackStep(t) ==
    /\ InFlight(t)
    /\ Len(turns') = Len(turns)
    /\ turns'[t] # turns[t]
    /\ turns'[t].status \in {"streaming", "complete", "error"}

\* The transcript `msgs` is that of the session turn t was started in: it
\* holds a message of the turn (web sessions are told apart by their id).
OfTurn(t, msgs) == {turns[t].userId, turns[t].aiId} \cap Ids(msgs) # {}

AllTranscripts ==
    {sessions[i].messages : i \in 1..Len(sessions)}
        \cup {localStorage[i].messages : i \in 1..Len(localStorage)}

\* C13: a callback of an in-flight turn changes no transcript, in memory or
\* persisted, of a session other than the one the turn was started in: after
\* a switch to another session, a new conversation or the deletion of the
\* owning session, the transcript shown and the store are left as they were.
C13_CallbacksKeepToTheirSession ==
    [][\A t \in 1..Len(turns) : CallbackStep(t) =>
         IF mode = "mobile"
         THEN ~OfTurn(t, messages) =>
                 /\ messages' = messages
                 /\ chatHistory' = chatHistory
                 /\ tasks' = tasks
         ELSE /\ Len(sessions') = Len(sessions)
              /\ \A i \in 1..Len(sessions) :
                   sessions[i].id # turns[t].sid =>
                       sessions'[i].messages = sessions[i].messages
              /\ \A k \in 1..Len(localStorage') :
                   localStorage'[k].id # turns[t].sid =>
                       localStorage'[k].messages \in AllTranscripts
      ]_vars

\* Message j of `before` is still message j of `after` (the same id) and is
\* not streaming, but its content differs.
Rewritten(before, after) ==
    \E j \in 1..Min(Len(before), Len(after)) :
        /\ before[j].id = after[j].id
        /\ ~Streaming(before[j])
        /\ before[j].content # after[j].content

\* No two turns share a message id (their sends were made in different
\* milliseconds).
UniqueTurnIds ==
    \A t, u \in 1..Len(turns) :
        t # u => {turns[t].userId, turns[t].aiId} \cap {turns[u].userId, turns[u].aiId} = {}

\* A step of the program as the claims about transcripts look at it: the
\* message ids of the turns differ, and a web handler started by the user
\* runs from a render of the committed state (a callback of a turn runs from
\* the render of its send).
PlainStep ==
    /\ UniqueTurnIds'
    /\ Web => (FreshRender \/ \E t \in 1..Len(turns) : CallbackStep(t))

\* C14: a message that has isStreaming = false, or was created without the
\* flag, keeps its content in every step, in memory and in the store.
C14_FinalContentImmutable ==
    [][PlainStep =>
       IF mode = "mobile"
       THEN /\ ~Rewritten(messages, messages')
            /\ \A k \in 1..Min(Len(chatHistory), Len(chatHistory')) :
                 chatHistory[k].id = chatHistory'[k].id =>
                     ~Rewritten(chatHistory[k].messages, chatHistory'[k].messages)
       ELSE /\ \A i \in 1..Len(sessions), k \in 1..Len(sessions') :
                 sessions[i].id = sessions'[k].id =>
                     ~Rewritten(sessions[i].messages, sessions'[k].messages)
            /\ \A i \in 1..Len(localStorage), k \in 1..Len(localStorage') :
                 localStorage[i].id = localStorage'[k].id =>
                     ~Rewritten(localStorage[i].messages, localStorage'[k].messages)
      ]_vars

\* From `before` to `after` a message list is unchanged, extended, or changed
\* in its last element only: every element but the last of `before` is kept
\* in its place.
AppendOrLast(before, after) ==
    /\ Len(after) >= Len(before)
    /\ \A j \in 1..(Len(before) - 1) : after[j] = before[j]

\* C15: in every step the message list of every session, in memory and as
\* persisted, is unchanged, extended by appended messages, or changed only in
\* its last element. (Mobile holds one list in memory, that of the session
\* shown: the steps that change it for the session shown are the sends and
\* the callbacks; a navigation shows another session.)
C15_AppendOrLastOnly ==
    [][PlainStep =>
       IF mode = "mobile"
       THEN /\ turns' # turns => AppendOrLast(messages, messages')
            /\ DistinctIds(chatHistory) =>
                 \A k \in 1..Min(Len(chatHistory), Len(chatHistory')) :
                   chatHistory[k].id = chatHistory'[k].id =>
                       AppendOrLast(chatHistory[k].messages, chatHistory'[k].messages)
       ELSE /\ (DistinctIds(sessions) /\ DistinctIds(sessions')) =>
                 \A i \in 1..Len(sessions), k \in 1..Len(sessions') :
                   sessions[i].id = sessions'[k].id =>
                       AppendOrLast(sessions[i].messages, sessions'[k].messages)
            /\ (DistinctIds(localStorage) /\ DistinctIds(localStorage')) =>
                 \A i \in 1..Len(localStorage), k \in 1..Len(localStorage') :
                   localStorage[i].id = localStorage'[k].id =>
                       AppendOrLast(localStorage[i].messages, localStorage'[k].messages)
      ]_vars

\* C16: within one session, in memory and in the store, no two messages
\* share an id.
C16_MessageIdsUnique ==
    \A msgs \in MemoryLists \cup StoredLists : DistinctIds(msgs)

\* Turn t receives its onComplete callback in this step.
CompleteStep(t) == InFlight(t) /\ turns'[t].status = "complete" /\ OwnId(t)

\* `msgs` holds the user message of turn t and its assistant message,
\* finalized with the content delivered.
HoldsFinalTurn(t, msgs) ==
    /\ turns[t].userId \in Ids(msgs)
    /\ \E m \in Placeholders(t, msgs) :
         ~Streaming(m) /\ m.content = turns[t].fullContent

\* C17: the onComplete callback of a turn writes the Session Store, or
\* starts a save that will, with a transcript that holds the finalized
\* assistant message of the turn together with its user message.
C17_CompletedTurnPersisted ==
    [][\A t \in 1..Len(turns) : CompleteStep(t) =>
         IF mode = "mobile"
         THEN \E k \in 1..Len(tasks') :
                tasks'[k].kind = "save" /\ HoldsFinalTurn(t, tasks'[k].messages)
         ELSE \E k \in 1..Len(localStorage') :
                HoldsFinalTurn(t, localStorage'[k].messages)
      ]_vars

\* C18: a step in which the id of a session leaves the list in memory or the
\* store is a deleteSession(id): it removes exactly the sessions with that
\* id, leaves every other session as it was and in its place, writes that
\* list to the store, and leaves the current session as it was unless id was
\* current; and no callback of a turn brings a session id into the list or
\* the store.
C18_OnlyDeleteRemoves ==
    [][Web =>
       /\ (SessionIds(sessions) \ SessionIds(sessions') # {}
             \/ SessionIds(localStorage) \ SessionIds(localStorage') # {}) =>
            \E id \in SessionIds(sessions) :
               /\ sessions' = Without(sessions, id)
               /\ localStorage' = sessions'
               /\ turns' = turns
               /\ currentSessionId # id => currentSessionId' = currentSessionId
       /\ \A t \in 1..Len(turns) : CallbackStep(t) =>
            /\ SessionIds(sessions') \subseteq SessionIds(sessions)
            /\ SessionIds(localStorage') \subseteq SessionIds(localStorage)
      ]_vars

\* The sessions that are in both lists stand in the same relative order.
SameOrder(before, after) ==
    \A i, j \in 1..Len(before), k, l \in 1..Len(after) :
        (i < j /\ before[i].id = after[k].id /\ before[j].id = after[l].id) => k < l

\* C19: no step changes the relative order, in the Session Store, of two
\* sessions that both remain in it.
C19_StoreKeepsOrder ==
    [][IF mode = "mobile"
       THEN (DistinctIds(chatHistory) /\ DistinctIds(chatHistory')) =>
               SameOrder(chatHistory, chatHistory')
       ELSE (DistinctIds(localStorage) /\ DistinctIds(localStorage')) =>
               SameOrder(localStorage, localStorage')
      ]_vars

\* The fields of a message that a load has to hand back.
MessageFields == {"id", "role", "content", "timestamp"}

SameMessages(a, b) ==
    /\ Len(a) = Len(b)
    /\ \A j \in 1..Len(a) :
         \A f \in MessageFields :
            f \in DOMAIN a[j] /\ f \in DOMAIN b[j] /\ a[j][f] = b[j][f]

\* Every session of `stored` is in `loaded` with the same messages, and
\* `loaded` holds nothing else.
Preserved(stored, loaded) ==
    /\ Len(loaded) = Len(stored)
    /\ SessionIds(loaded) = SessionIds(stored)
    /\ \A i \in 1..Len(stored) : \E k \in 1..Len(loaded) :
         loaded[k].id = stored[i].id /\ SameMessages(stored[i].messages, loaded[k].messages)
    /\ \A k \in 1..Len(loaded) : \E i \in 1..Len(stored) :
         loaded[k].id = stored[i].id /\ SameMessages(stored[i].messages, loaded[k].messages)

\* C20: a load of the saved Session Store yields the same set of session
\* ids and, for every session id, the same ordered message list with the id,
\* role, content and timestamp of every message as they were saved.
C20_SaveLoadRoundTrip ==
    [][WebReload => Preserved(localStorage, sessions')]_vars

\* A page was loaded again while an answer was streaming: the loaded session
\* holds the user message (no isStreaming) and the half-written answer.
C20_Witness ==
    /\ Web
    /\ FreshRender
    /\ \E t \in 1..Len(turns) : turns[t].status = "aborted"
    /\ Preserved(localStorage, sessions)
    /\ \E k \in 1..Len(sessions) :
         /\ Len(sessions[k].messages) >= 2
         /\ "isStreaming" \notin DOMAIN sessions[k].messages[1]
         /\ sessions[k].messages[1].content # sessions[k].messages[2].content

(***************************************************************************)
(* Claims about the server's authentication                                *)
(***************************************************************************)
TokensOf(u) == {i \in 1..Len(issued) : issued[i].sub = u}

\* The token of the user's last successful login.
LatestToken(u) ==
    IF TokensOf(u) = {} THEN NoToken
    ELSE issued[CHOOSE i \in TokensOf(u) : \A j \in TokensOf(u) : j <= i]

RequestStep == lastResponse'.n = lastResponse.n + 1 /\ lastResponse'.token # NoToken

TransportErrors == {OnError("network"), OnError("HTTP error"), OnError("read failed")}

\* The stream has ended by a frame or by the end of the body.
EndedByStream ==
    /\ mode = "bytes" /\ pc = "done"
    /\ cbLog # <<>> /\ cbLog[Len(cbLog)] \notin TransportErrors

\* C22: however the body is cut into reads, the texts given to onChunk are
\* the content fields of the content frames up to the terminal frame, each
\* once and in the order of the frames.
C22_EveryContentFrameOnce ==
    EndedByStream => ChunkTexts(cbLog) = ChunkTexts(ExpectedCalls(Split(wire)))

(***************************************************************************)
(* Claims about the mobile store                                           *)
(***************************************************************************)
\* The oldest waiting saveHistory resumes.
SaveStep ==
    /\ mode = "mobile"
    /\ tasks # <<>> /\ Head(tasks).kind = "save"
    /\ tasks' = Tail(tasks)

\* The turn whose completion called the saveHistory now resuming.
SavingTurns ==
    {t \in 1..Len(turns) :
        /\ OwnId(t)
        /\ LastIs(Head(tasks).messages, turns[t].aiId)}

\* Position i of the store after the step is where the transcript `msgs` of
\* a turn sent in session `sid` belongs.
Rightful(i, sid, msgs) ==
    IF sid # Null THEN chatHistory'[i].id = sid
    ELSE IF i <= Len(chatHistory)
         THEN Ids(chatHistory[i].messages) \cap Ids(msgs) # {}
         ELSE sessionRef = Null

\* C23: a saveHistory writes the transcript it was given only into the
\* session that owned the turn, whatever loadHistory or navigation did while
\* it waited: every session of the store that the write changes or adds is
\* that session.
C23_SaveKeepsToOwner ==
    [][SaveStep =>
         \A t \in SavingTurns :
            \A i \in 1..Len(chatHistory') :
               (i > Len(chatHistory) \/ chatHistory'[i] # chatHistory[i]) =>
                  Rightful(i, turns[t].sid, Head(tasks).messages)
      ]_vars

(***************************************************************************)
(* Claims about the web store's writes                                     *)
(***************************************************************************)
\* An onChunk of turn t: updateLastMessage(fullContent, true).
ChunkStep(t) == InFlight(t) /\ turns'[t].nChunks = turns[t].nChunks + 1

\* A turn ends: updateLastMessage(content, false).
FinalStep == \E t \in 1..Len(turns) : InFlight(t) /\ turns'[t].status \in {"complete", "error"}

\* A send: addMessage appends the user message and the placeholder.
AppendStep == Len(turns') = Len(turns) + 1

\* createSession or deleteSession.
CreateOrDeleteStep ==
    FreshRender /\ turns' = turns /\ Len(sessions') # Len(sessions)

\* C24: in the web client an updateLastMessage with isStreaming = true changes
\* the session list in memory and nothing else, the store least of all; the
\* store is written only by a step that appends a message, creates or deletes
\* a session, or finalizes the last message.
C24_StreamingUpdateNotStored ==
    [][Web =>
         /\ \A t \in 1..Len(turns) : ChunkStep(t) =>
               /\ localStorage' = localStorage
               /\ currentSessionId' = currentSessionId
               /\ isLoading' = isLoading
         /\ localStorage' # localStorage =>
               AppendStep \/ CreateOrDeleteStep \/ FinalStep
      ]_vars

\* A chunk has been written into the placeholder in memory while the store
\* still holds the empty placeholder.
C24_Witness ==
    /\ Web
    /\ \E t \in 1..Len(turns) :
         /\ InFlight(t) /\ turns[t].nChunks > 0
         /\ \E i \in 1..Len(sessions), j \in 1..Len(localStorage) :
              /\ sessions[i].id = turns[t].sid /\ localStorage[j].id = turns[t].sid
              /\ Len(sessions[i].messages) = 2 /\ Len(localStorage[j].messages) = 2
              /\ sessions[i].messages[2].content = turns[t].fullContent
              /\ Streaming(sessions[i].messages[2])
              /\ localStorage[j].messages[2].content = ""

\* C25: a resuming saveHistory is an upsert keyed by the current session id.
\* If the store holds a session with that id, that session gets the messages,
\* the time of the save as updatedAt and the title, keeps its id, createdAt
\* and place, and nothing else in the store changes; otherwise one session is
\* pushed at the end with that id, or with a fresh id when no session is
\* current, and it becomes the current session.
C25_SaveIsUpsert ==
    [][SaveStep =>
         LET msgs == Head(tasks).messages
             at == FindIndex(chatHistory, sessionRef)
             last == Len(chatHistory) + 1
         IN  IF sessionRef # Null /\ at # 0
             THEN /\ Len(chatHistory') = Len(chatHistory)
                  /\ \A j \in 1..Len(chatHistory) : j # at => chatHistory'[j] = chatHistory[j]
                  /\ chatHistory'[at].id = sessionRef
                  /\ chatHistory'[at].createdAt = chatHistory[at].createdAt
                  /\ chatHistory'[at].messages = msgs
                  /\ chatHistory'[at].updatedAt = Clock
                  /\ sessionRef' = sessionRef
             ELSE /\ Len(chatHistory') = last
                  /\ SubSeq(chatHistory', 1, Len(chatHistory)) = chatHistory
                  /\ chatHistory'[last].messages = msgs
                  /\ chatHistory'[last].createdAt = Clock
                  /\ IF sessionRef # Null
                     THEN chatHistory'[last].id = sessionRef
                     ELSE chatHistory'[last].id \notin SessionIds(chatHistory)
                  /\ sessionRef' = chatHistory'[last].id
      ]_vars

\* A second turn of a stored session was saved: the session holds both
\* turns, was created at the first save and updated at the second.
C25_Witness ==
    /\ mode = "mobile"
    /\ tasks = <<>>
    /\ \E i \in 1..Len(chatHistory) :
         /\ Len(chatHistory[i].messages) = 4
         /\ chatHistory[i].createdAt < chatHistory[i].updatedAt
         /\ chatHistory[i].id = sessionRef

NoneStreaming(msgs) == \A j \in 1..Len(msgs) : ~Streaming(msgs[j])

\* C26: in the mobile client no message of the persisted store has
\* isStreaming = true, and no saveHistory is given one to write.
C26_StoreHoldsFinalizedOnly ==
    mode = "mobile" =>
       /\ \A i \in 1..Len(chatHistory) : NoneStreaming(chatHistory[i].messages)
       /\ \A k \in 1..Len(tasks) :
             tasks[k].kind = "save" => NoneStreaming(tasks[k].messages)

\* The store holds an answer that was streamed and finalized, while the next
\* turn of the same conversation is streaming in memory.
C26_Witness ==
    /\ mode = "mobile"
    /\ \E i \in 1..Len(chatHistory) :
         /\ Len(chatHistory[i].messages) = 2
         /\ chatHistory[i].messages[2].content # ""
         /\ "isStreaming" \in DOMAIN chatHistory[i].messages[2]
         /\ ~chatHistory[i].messages[2].isStreaming
    /\ Len(messages) = 4 /\ Streaming(messages[4])

CompleteCalls(log) == Len(SelectSeq(log, LAMBDA c : c = OnComplete))

\* The body has ended: read() resolves with done.
EndOfBodyStep ==
    /\ mode = "bytes" /\ pc = "read" /\ body = <<>> /\ pc' = "done"
    /\ cbLog'[Len(cbLog')] \notin TransportErrors

\* A read returned text and the consumer returned while handling it.
FrameEndStep == mode = "bytes" /\ pc = "read" /\ body' # body /\ pc' = "done"

NoFrame == [ok |-> FALSE, content |-> "", done |-> FALSE, error |-> ""]

\* The first well-formed frame with error or done among `lines`, NoFrame when
\* there is none.
RECURSIVE FirstEnd(_)
FirstEnd(lines) ==
    IF lines = <<>> THEN NoFrame
    ELSE IF ~IsDataLine(Head(lines)) THEN FirstEnd(Tail(lines))
    ELSE LET d == JSONParse(Slice(Head(lines), 6))
         IN  IF d.ok /\ (d.error # "" \/ d.done) THEN d ELSE FirstEnd(Tail(lines))

\* C27: in byte-stream mode the end of a body that brought no done frame
\* invokes onComplete once; a done frame invokes onComplete once and nothing is
\* invoked after it, the end of the body included; a frame with content and
\* done invokes onChunk with the content and then onComplete; a frame with
\* error invokes onError only, also when it carries content.
C27_EndOfStreamCallbacks ==
    [][/\ EndOfBodyStep =>
             cbLog' = Append(cbLog, OnComplete) /\ CompleteCalls(cbLog') = 1
       /\ FrameEndStep =>
             LET d == FirstEnd(Split(SubSeq(body, 1, Len(body) - Len(body'))))
                 log == cbLog'
                 n == Len(cbLog')
             IN  /\ d.ok
                 /\ IF d.error # ""
                    THEN /\ log[n] = OnError(d.error)
                         /\ TerminalCalls(log) = 1
                         /\ \A i \in 1..n : log[i] # OnChunk(d.content)
                    ELSE /\ log[n] = OnComplete
                         /\ CompleteCalls(log) = 1 /\ TerminalCalls(log) = 1
                         /\ d.content # "" => (n >= 2 /\ log[n - 1] = OnChunk(d.content))
       /\ (mode = "bytes" /\ pc = "done") => cbLog' = cbLog
      ]_vars

\* A frame with content and done, and then the end of the body: onChunk and
\* one onComplete.
C27_Witness ==
    /\ mode = "bytes" /\ pc = "done"
    /\ wire = FrameLine(ContentA) \o FrameLine(ContentDone)
    /\ body = <<>>
    /\ cbLog = <<OnChunk("a"), OnChunk("b"), OnComplete>>

(***************************************************************************)
(* Claims about the end of a web turn                                      *)
(***************************************************************************)
\* C28: in the web client a turn that ends with onError leaves its
\* placeholder, in the session that holds it, as the last message and in the
\* same place, with isStreaming = false and with the text accumulated from
\* onChunk as content when there is any, the apology text otherwise, never
\* the two together.
C28_WebErrorFinalizesInPlace ==
    [][\A t \in 1..Len(turns) :
          (Web /\ ErrorStep(t)) =>
             \A i \in 1..Len(sessions) :
                turns[t].aiId \in Ids(sessions[i].messages) =>
                   LET n == Len(sessions[i].messages)
                       msgs == sessions'[i].messages
                   IN  /\ sessions[i].messages[n].id = turns[t].aiId
                       /\ Len(sessions') = Len(sessions)
                       /\ sessions'[i].id = sessions[i].id
                       /\ Len(msgs) = n
                       /\ msgs[n].id = turns[t].aiId
                       /\ ~Streaming(msgs[n])
                       /\ msgs[n].content = IF turns[t].fullContent # ""
                                            THEN turns[t].fullContent ELSE WebApology
      ]_vars

(***************************************************************************)
(* Claims about the web startup                                            *)
(***************************************************************************)
\* C29: when the web page loads a stored list that is not empty, the current
\* session becomes a stored session whose updatedAt no stored session
\* exceeds; when the stored list is empty or absent no session is current
\* and the session list is empty.
C29_StartupSelectsLatest ==
    [][WebReload =>
         IF Len(localStorage) > 0
         THEN \E i \in 1..Len(localStorage) :
                 /\ currentSessionId' = localStorage[i].id
                 /\ \A j \in 1..Len(localStorage) :
                       localStorage[j].updatedAt <= localStorage[i].updatedAt
         ELSE currentSessionId' = Null /\ sessions' = <<>>
      ]_vars

\* The page was loaded with a store whose second session was updated last:
\* that session is current and first in the list in memory.
C29_Witness ==
    /\ Web
    /\ FreshRender
    /\ Len(localStorage) >= 2
    /\ localStorage[2].updatedAt > localStorage[1].updatedAt
    /\ currentSessionId = localStorage[2].id
    /\ currentSessionId # localStorage[1].id
    /\ Len(sessions) = Len(localStorage)
    /\ sessions[1] = localStorage[2]

(***************************************************************************)
(* Claims about session ids                                                *)
(***************************************************************************)
\* C30: in every reachable state no two sessions of a client's Session Store
\* share an id.
C30_SessionIdsUnique == DistinctIds(StoredSessions)

====
